---- MODULE Spec2Model ----
(***************************************************************************)
(* A model of compressor.py: main, find_files, process_batch and the two   *)
(* pool workers compress_image and compress_video, over a small            *)
(* filesystem.                                                             *)
(*                                                                         *)
(* A path is a record [dir, name, ext]: dir is the sequence of directory   *)
(* names, name the base name without its last extension as a sequence of   *)
(* tokens (<<"temp_", "a">> is "temp_a", <<"a", ".optimized">> is          *)
(* "a.optimized"), ext the last extension as os.path.splitext returns it.  *)
(* A directory path has the empty name and the empty extension.            *)
(*                                                                         *)
(* fs maps each existing file to what it holds: whether it is completely   *)
(* written, the source it was made from, and its size.  corrupt is the set *)
(* of source files the codecs cannot process: such a file may raise where  *)
(* it is opened or resized, and raises at the latest where it is encoded,  *)
(* so the same file fails in every run.  The width of an image or clip is  *)
(* read when it is opened.  Sizes are 4 for a source, 1 for an encoded     *)
(* file and 0 for a file that was opened for writing and not yet written.  *)
(*                                                                         *)
(* Each worker is cut into steps at its filesystem calls; the pool threads *)
(* interleave at these steps.  A task may start whenever fewer than        *)
(* max_workers tasks are running.                                          *)
(***************************************************************************)
EXTENDS Naturals, Sequences, FiniteSets, TLC

VARIABLES fs, corrupt, flow, arg, phase, path, files, visited, nsub, tasks,
          results, collected, report, out, run, prev

vars == <<fs, corrupt, flow, arg, phase, path, files, visited, nsub, tasks,
          results, collected, report, out, run, prev>>

(* ------------------------------ bounds -------------------------------- *)

\* Files on the disk when the program first starts.
MaxFiles == 2

\* Runs of the program over the same disk.
MaxRuns == 2

(* ------------------------- program constants -------------------------- *)

MAX_WIDTH == 1920

max_workers == 4

IGNORE_DIRS ==
    {"node_modules", "venv", ".git", ".vscode", "__pycache__",
     "site-packages", "dist", "build", ".idea", ".gemini", "env"}

\* find_files' extension filter.
extensions == {".png", ".jpg", ".jpeg", ".mp4"}

\* process_batch's image branch.
ImageExts == {".png", ".jpg", ".jpeg"}

\* compress_video's own eligibility list.
VideoExts == {".mp4", ".mov", ".avi"}

(* --------------------------- the filesystem --------------------------- *)

\* The directories of the tree; all of them exist throughout.
Dirs ==
    {<<"img">>, <<"img", "thumbs">>, <<"img", "node_modules">>,
     <<"img", "node_modules", "pkg">>}

File(d, n, e) == [dir |-> d, name |-> n, ext |-> e]

DirPath(d) == File(d, <<>>, "")

\* The user gave no path (an empty line at the prompt).
NoPath == File(<<>>, <<>>, "")

\* The files the disk may hold at the start: every kind of base name in
\* img, and one image in each other directory.
Candidates ==
    {File(<<"img">>, b[1], b[2]) :
        b \in {<<(<<"a">>), ".png">>, <<(<<"a">>), ".jpg">>,
               <<(<<"a">>), ".mp4">>, <<(<<"a">>), ".MP4">>,
               <<(<<"temp_", "a">>), ".mp4">>, <<(<<"a">>), ".mov">>,
               <<(<<"a">>), ".webp">>, <<(<<"a">>), ".txt">>}}
    \cup {File(d, <<"a">>, ".png") : d \in Dirs \ {<<"img">>}}

\* The widths an opened image or clip may report.
Widths == {MAX_WIDTH, MAX_WIDTH + 1}

\* str.lower() on an extension.
Lower(e) ==
    CASE e = ".MP4" -> ".mp4"
      [] e = ".MOV" -> ".mov"
      [] e = ".AVI" -> ".avi"
      [] e = ".PNG" -> ".png"
      [] e = ".JPG" -> ".jpg"
      [] e = ".JPEG" -> ".jpeg"
      [] e = ".WEBP" -> ".webp"
      [] OTHER -> e

isdir(p) == p.name = <<>> /\ p.ext = "" /\ p.dir \in Dirs

exists(p) == isdir(p) \/ p \in DOMAIN fs

\* os.path.getsize behind get_size_mb's existence test.
get_size_mb(p) == IF p \in DOMAIN fs THEN fs[p].size ELSE 0

\* benchmark: sizes and the percentage saved (whole percents).
benchmark(old_path, new_path) ==
    LET old_size == get_size_mb(old_path)
        new_size == get_size_mb(new_path)
    IN  [old_size |-> old_size, new_size |-> new_size,
         ratio |-> IF old_size > 0
                   THEN ((old_size - new_size) * 100) \div old_size
                   ELSE 0]

\* A file as it was before the program ran.
Original(p) == [st |-> "complete", by |-> p, size |-> 4]

\* What an encoder has written so far, and what it leaves when it finishes.
Partial(src) == [st |-> "partial", by |-> src, size |-> 0]
Encoded(src) == [st |-> "complete", by |-> src, size |-> 1]

Remove(f, p) == [q \in (DOMAIN f) \ {p} |-> f[q]]

Put(f, p, c) == (p :> c) @@ f

IsPrefix(s, t) == Len(s) <= Len(t) /\ SubSeq(t, 1, Len(s)) = s

(* ------------------------------ naming -------------------------------- *)

\* compress_image: new_file_path.
ImageTarget(f) == File(f.dir, f.name, ".webp")

\* compress_video: new_file_path.
VideoTarget(f) == File(f.dir, f.name \o <<".optimized">>, ".mp4")

\* compress_video: temp_path.
TempPath(f) == File(f.dir, <<"temp_">> \o f.name \o <<".optimized">>, ".mp4")

\* "optimized" in name
HasOptimized(n) == \E i \in 1..Len(n) : n[i] = ".optimized"

(* ----------------------------- find_files ----------------------------- *)

\* A set as a sequence, in the order the directory listing gives.
RECURSIVE SetToSeq(_)
SetToSeq(S) ==
    IF S = {} THEN <<>>
    ELSE LET x == CHOOSE y \in S : TRUE IN <<x>> \o SetToSeq(S \ {x})

SubDirs(d) == {c \in Dirs : Len(c) = Len(d) + 1 /\ IsPrefix(d, c)}

\* os.walk with dirs left as listed.
KeptDirsUnfiltered(d) == SubDirs(d)

\* dirs[:] = [d for d in dirs if d not in IGNORE_DIRS]
KeptDirs(d) == {c \in SubDirs(d) : c[Len(c)] \notin IGNORE_DIRS}

\* The files of one directory that pass the extension filter.
Matching(d) == {p \in DOMAIN fs : p.dir = d /\ Lower(p.ext) \in extensions}

\* os.walk from root: the directories it yields and the files appended.
RECURSIVE Walk(_)
Walk(root) ==
    LET below == SetToSeq(KeptDirs(root))
        Rec[i \in 0..Len(below)] ==
            IF i = 0 THEN [visited |-> {root}, found |-> SetToSeq(Matching(root))]
            ELSE LET w == Walk(below[i])
                 IN  [visited |-> Rec[i - 1].visited \cup w.visited,
                      found |-> Rec[i - 1].found \o w.found]
    IN  Rec[Len(below)]

find_files(start_path) ==
    IF isdir(start_path) THEN Walk(start_path.dir)
    ELSE [visited |-> {}, found |-> <<>>]

(* ------------------------- outcomes of a worker ----------------------- *)

\* The future has no result yet.
Pending == [status |-> "pending"]

\* return None
None == [status |-> "none"]

Skipped == [status |-> "skipped", reason |-> "Target exists"]

BaseName(p) == <<p.name, p.ext>>

SuccessRet(f, target) ==
    LET b == benchmark(f, target)
    IN  [status |-> "success", original |-> BaseName(f), new |-> BaseName(target),
         old_size |-> b.old_size, new_size |-> b.new_size, ratio |-> b.ratio]

ErrorRet(f, msg) == [status |-> "error", error |-> msg, file |-> f]

\* The worker without its try/except: the exception is left in the future.
ExceptPropagates(t, msg) ==
    [t EXCEPT !.pc = "done", !.ret = [status |-> "exception", error |-> msg],
              !.raised = TRUE]

\* except Exception as e: return {"status": "error", ...}
Except(t, msg) ==
    [t EXCEPT !.pc = "done", !.ret = ErrorRet(t.file, msg), !.raised = TRUE]

Return(t, r) == [t EXCEPT !.pc = "done", !.ret = r]

NewTask(f, w) ==
    [file |-> f, worker |-> w, pc |-> "queued", ret |-> Pending,
     clip |-> "none", created |-> FALSE, raised |-> FALSE]

\* The pool threads that are inside a task.
Running == {i \in 1..Len(tasks) : tasks[i].pc \notin {"queued", "done"}}

\* A write that ends: the bytes land in the file the writer opened,
\* whatever its name is by then.
Finish(f, src) ==
    [p \in DOMAIN f |-> IF f[p] = Partial(src) THEN Encoded(src) ELSE f[p]]

(* -------------------------------- Init -------------------------------- *)

Init ==
    /\ \E disk \in SUBSET Candidates :
          /\ Cardinality(disk) <= MaxFiles
          /\ fs = [p \in disk |-> Original(p)]
          /\ corrupt \in SUBSET disk
    /\ flow \in {"input", "interactive"}
    /\ arg \in {DirPath(d) : d \in Dirs} \cup Candidates
                 \cup (IF flow = "interactive" THEN {NoPath} ELSE {})
    /\ phase = "main"
    /\ path = NoPath
    /\ files = <<>>
    /\ visited = {}
    /\ nsub = 0
    /\ tasks = <<>>
    /\ results = <<>>
    /\ collected = {}
    /\ report = <<>>
    /\ out = {}
    /\ run = 1
    /\ prev = [ended |-> "never", success |-> {}]

(* -------------------------------- main -------------------------------- *)

\* files = find_files(p) if os.path.isdir(p) else [p]; process_batch starts.
StartBatch(p) ==
    /\ path' = p
    /\ files' = IF isdir(p) THEN find_files(p).found ELSE <<p>>
    /\ visited' = find_files(p).visited
    /\ phase' = "batch"

\* main with --input.
MainInput ==
    /\ phase = "main"
    /\ flow = "input"
    /\ StartBatch(arg)
    /\ UNCHANGED <<fs, corrupt, flow, arg, nsub, tasks, results, collected,
                   report, out, run, prev>>

\* main without --input: the banner and the Action menu.
MainSelect ==
    /\ phase = "main"
    /\ flow = "interactive"
    /\ \E choice \in {"1. Optimize Assets", "2. Exit", "none"} :
          IF choice = "1. Optimize Assets"
          THEN /\ phase' = "path_input"
               /\ out' = out \cup {"welcome"}
          ELSE /\ phase' = "exit"
               /\ out' = out \cup {"welcome", "Goodbye!"}
    /\ UNCHANGED <<fs, corrupt, flow, arg, path, files, visited, nsub, tasks,
                   results, collected, report, run, prev>>

\* The path prompt of the interactive flow.
MainPath ==
    /\ phase = "path_input"
    /\ IF arg # NoPath /\ exists(arg)
       THEN /\ StartBatch(arg)
            /\ out' = out \cup {"Target folder/file:"}
       ELSE /\ phase' = "exit"
            /\ out' = out \cup {"Target folder/file:", "Invalid path.", "Goodbye!"}
            /\ UNCHANGED <<path, files, visited>>
    /\ UNCHANGED <<fs, corrupt, flow, arg, nsub, tasks, results, collected,
                   report, run, prev>>

(* ---------------------------- process_batch --------------------------- *)

\* The worker process_batch submits for a file, "" when it submits none.
Dispatch(f) ==
    IF Lower(f.ext) \in ImageExts THEN "image"
    ELSE IF Lower(f.ext) = ".mp4" THEN "video"
    ELSE ""

\* One turn of the submit loop.
Submit ==
    /\ phase = "batch"
    /\ nsub < Len(files)
    /\ LET f == files[nsub + 1]
       IN  tasks' = IF Dispatch(f) = "" THEN tasks
                    ELSE Append(tasks, NewTask(f, Dispatch(f)))
    /\ nsub' = nsub + 1
    /\ UNCHANGED <<fs, corrupt, flow, arg, phase, path, files, visited,
                   results, collected, report, out, run, prev>>

\* One turn of the as_completed loop.
Collect(i) ==
    /\ phase = "batch"
    /\ nsub = Len(files)
    /\ i \notin collected
    /\ tasks[i].pc = "done"
    /\ results' = IF tasks[i].ret # None THEN Append(results, tasks[i].ret)
                  ELSE results
    /\ collected' = collected \cup {i}
    /\ UNCHANGED <<fs, corrupt, flow, arg, phase, path, files, visited, nsub,
                   tasks, report, out, run, prev>>

\* sorted(..., key=ratio, reverse=True): a stable insertion by ratio.
RECURSIVE SortByRatio(_)
SortByRatio(s) ==
    IF s = <<>> THEN <<>>
    ELSE LET rest == SortByRatio(Tail(s))
             x == Head(s)
             k == Cardinality({j \in 1..Len(rest) : rest[j].ratio > x.ratio})
         IN  SubSeq(rest, 1, k) \o <<x>> \o SubSeq(rest, k + 1, Len(rest))

Successes(s) == SelectSeq(s, LAMBDA r : r.status = "success")

\* Every future has been drained: the table or the notice, then main ends.
Report ==
    /\ phase = "batch"
    /\ nsub = Len(files)
    /\ collected = 1..Len(tasks)
    /\ report' = SortByRatio(Successes(results))
    /\ out' = out \cup (IF Len(Successes(results)) > 0
                        THEN {"Optimization Report"}
                        ELSE {"No new assets needed optimization."})
                  \cup (IF flow = "interactive" THEN {"Goodbye!"} ELSE {})
    /\ phase' = "exit"
    /\ UNCHANGED <<fs, corrupt, flow, arg, path, files, visited, nsub, tasks,
                   results, collected, run, prev>>

(* --------------------------- compress_image --------------------------- *)

SetTask(i, t) == tasks' = [tasks EXCEPT ![i] = t]

WorkerVars == <<corrupt, flow, arg, phase, path, files, visited, nsub,
                results, collected, report, out, run, prev>>

\* Lines 114-122: the names, the .webp test, the target test.
ImageStart(i) ==
    /\ phase = "batch"
    /\ tasks[i].worker = "image"
    /\ tasks[i].pc = "queued"
    /\ Cardinality(Running) < max_workers
    /\ LET t == tasks[i]
       IN  IF Lower(t.file.ext) = ".webp" THEN SetTask(i, Return(t, None))
           ELSE IF exists(ImageTarget(t.file)) THEN SetTask(i, Return(t, Skipped))
           ELSE SetTask(i, [t EXCEPT !.pc = "open"])
    /\ UNCHANGED fs
    /\ UNCHANGED WorkerVars

\* Lines 124-128: Image.open and the resize of a wide image.
ImageOpen(i) ==
    /\ phase = "batch"
    /\ tasks[i].worker = "image"
    /\ tasks[i].pc = "open"
    /\ LET t == tasks[i]
       IN  IF t.file \notin DOMAIN fs
           THEN SetTask(i, Except(t, "FileNotFoundError"))
           ELSE \E w \in Widths :
                   \/ /\ t.file \in corrupt
                      /\ SetTask(i, Except(t, IF w > MAX_WIDTH THEN "resize"
                                              ELSE "open"))
                   \/ SetTask(i, [t EXCEPT !.pc = "save"])
    /\ UNCHANGED fs
    /\ UNCHANGED WorkerVars

\* Line 130, first half: img.save opens the target for writing.
ImageSaveBegin(i) ==
    /\ phase = "batch"
    /\ tasks[i].worker = "image"
    /\ tasks[i].pc = "save"
    /\ LET t == tasks[i]
           target == ImageTarget(t.file)
       IN  /\ SetTask(i, [t EXCEPT !.pc = "saving",
                                   !.created = ~exists(target)])
           /\ fs' = Put(fs, target, Partial(t.file))
    /\ UNCHANGED WorkerVars

\* Line 130, second half: the encoder writes the file or raises. When it
\* raises, the library removes the file it created, or (older releases)
\* leaves it.
ImageSaveEnd(i) ==
    /\ phase = "batch"
    /\ tasks[i].worker = "image"
    /\ tasks[i].pc = "saving"
    /\ LET t == tasks[i]
           target == ImageTarget(t.file)
       IN  IF t.file \in corrupt
           THEN /\ SetTask(i, Except(t, "save"))
                /\ \E cleanup \in BOOLEAN :
                      fs' = IF cleanup /\ t.created /\ target \in DOMAIN fs
                            THEN Remove(fs, target) ELSE fs
           ELSE /\ SetTask(i, [t EXCEPT !.pc = "bench"])
                /\ fs' = Finish(fs, t.file)
    /\ UNCHANGED WorkerVars

\* Lines 131-132: benchmark and the success record.
ImageBench(i) ==
    /\ phase = "batch"
    /\ tasks[i].worker = "image"
    /\ tasks[i].pc = "bench"
    /\ LET t == tasks[i]
       IN  SetTask(i, Return(t, SuccessRet(t.file, ImageTarget(t.file))))
    /\ UNCHANGED fs
    /\ UNCHANGED WorkerVars

(* --------------------------- compress_video --------------------------- *)

\* Lines 138-147: the eligibility tests and the names.
VideoStart(i) ==
    /\ phase = "batch"
    /\ tasks[i].worker = "video"
    /\ tasks[i].pc = "queued"
    /\ Cardinality(Running) < max_workers
    /\ LET t == tasks[i]
       IN  IF Lower(t.file.ext) \notin VideoExts THEN SetTask(i, Return(t, None))
           ELSE IF HasOptimized(t.file.name) THEN SetTask(i, Return(t, None))
           ELSE IF exists(VideoTarget(t.file)) THEN SetTask(i, Return(t, None))
           ELSE SetTask(i, [t EXCEPT !.pc = "open"])
    /\ UNCHANGED fs
    /\ UNCHANGED WorkerVars

\* Lines 148-149: VideoFileClip and the resize of a wide clip.
VideoOpen(i) ==
    /\ phase = "batch"
    /\ tasks[i].worker = "video"
    /\ tasks[i].pc = "open"
    /\ LET t == tasks[i]
       IN  IF t.file \notin DOMAIN fs
           THEN SetTask(i, Except(t, "FileNotFoundError"))
           ELSE \/ /\ t.file \in corrupt
                   /\ SetTask(i, Except(t, "open"))
                \/ \E w \in Widths :
                      \/ /\ t.file \in corrupt
                         /\ w > MAX_WIDTH
                         /\ SetTask(i, Except([t EXCEPT !.clip = "open"], "resize"))
                      \/ SetTask(i, [t EXCEPT !.pc = "encode", !.clip = "open"])
    /\ UNCHANGED fs
    /\ UNCHANGED WorkerVars

\* Line 151, first half: the encoder opens temp_path for writing.
VideoEncodeBegin(i) ==
    /\ phase = "batch"
    /\ tasks[i].worker = "video"
    /\ tasks[i].pc = "encode"
    /\ LET t == tasks[i]
       IN  /\ SetTask(i, [t EXCEPT !.pc = "encoding"])
           /\ fs' = Put(fs, TempPath(t.file), Partial(t.file))
    /\ UNCHANGED WorkerVars

\* Lines 151-153, second half: the encode ends or raises; clip.close()
\* follows a return only.
VideoEncodeEnd(i) ==
    /\ phase = "batch"
    /\ tasks[i].worker = "video"
    /\ tasks[i].pc = "encoding"
    /\ LET t == tasks[i]
       IN  IF t.file \in corrupt
           THEN /\ SetTask(i, Except(t, "encode"))
                /\ fs' = fs
           ELSE /\ SetTask(i, [t EXCEPT !.pc = "check", !.clip = "closed"])
                /\ fs' = Finish(fs, t.file)
    /\ UNCHANGED WorkerVars

\* Line 155: if os.path.exists(new_file_path)
VideoCheck(i) ==
    /\ phase = "batch"
    /\ tasks[i].worker = "video"
    /\ tasks[i].pc = "check"
    /\ LET t == tasks[i]
       IN  SetTask(i, [t EXCEPT !.pc = IF exists(VideoTarget(t.file))
                                       THEN "remove" ELSE "rename"])
    /\ UNCHANGED fs
    /\ UNCHANGED WorkerVars

\* Line 155: os.remove(new_file_path)
VideoRemove(i) ==
    /\ phase = "batch"
    /\ tasks[i].worker = "video"
    /\ tasks[i].pc = "remove"
    /\ LET t == tasks[i]
           target == VideoTarget(t.file)
       IN  IF target \in DOMAIN fs
           THEN /\ SetTask(i, [t EXCEPT !.pc = "rename"])
                /\ fs' = Remove(fs, target)
           ELSE /\ SetTask(i, Except(t, "FileNotFoundError"))
                /\ fs' = fs
    /\ UNCHANGED WorkerVars

\* Line 156: os.rename(temp_path, new_file_path)
VideoRename(i) ==
    /\ phase = "batch"
    /\ tasks[i].worker = "video"
    /\ tasks[i].pc = "rename"
    /\ LET t == tasks[i]
           temp == TempPath(t.file)
       IN  IF temp \in DOMAIN fs
           THEN /\ SetTask(i, [t EXCEPT !.pc = "bench"])
                /\ fs' = Put(Remove(fs, temp), VideoTarget(t.file), fs[temp])
           ELSE /\ SetTask(i, Except(t, "FileNotFoundError"))
                /\ fs' = fs
    /\ UNCHANGED WorkerVars

\* Lines 157-158: benchmark and the success record.
VideoBench(i) ==
    /\ phase = "batch"
    /\ tasks[i].worker = "video"
    /\ tasks[i].pc = "bench"
    /\ LET t == tasks[i]
       IN  SetTask(i, Return(t, SuccessRet(t.file, VideoTarget(t.file))))
    /\ UNCHANGED fs
    /\ UNCHANGED WorkerVars

(* ----------------------- the process's environment -------------------- *)

\* The process is killed while the batch runs; every thread stops where
\* it is.
Crash ==
    /\ phase = "batch"
    /\ phase' = "killed"
    /\ UNCHANGED <<fs, corrupt, flow, arg, path, files, visited, nsub, tasks,
                   results, collected, report, out, run, prev>>

\* The batch report: the table, or the notice that stands for an empty one.
ReportLines == {"Optimization Report", "No new assets needed optimization."}

\* process_batch has run to its end in this run.
Reported == phase = "exit" /\ out \cap ReportLines # {}

\* The files that came back as a success in this run.
SuccessFiles ==
    {tasks[i].file : i \in {j \in 1..Len(tasks) : tasks[j].ret.status = "success"}}

\* The program is started again with the same arguments on the disk as
\* the last run left it.
Rerun ==
    /\ phase \in {"exit", "killed"}
    /\ run < MaxRuns
    /\ run' = run + 1
    /\ prev' = [ended |-> IF Reported THEN "reported" ELSE phase,
                 success |-> SuccessFiles]
    /\ phase' = "main"
    /\ path' = NoPath
    /\ files' = <<>>
    /\ visited' = {}
    /\ nsub' = 0
    /\ tasks' = <<>>
    /\ results' = <<>>
    /\ collected' = {}
    /\ report' = <<>>
    /\ out' = {}
    /\ UNCHANGED <<fs, corrupt, flow, arg>>

Next ==
    \/ MainInput
    \/ MainSelect
    \/ MainPath
    \/ Submit
    \/ \E i \in 1..Len(tasks) : Collect(i)
    \/ Report
    \/ \E i \in 1..Len(tasks) : ImageStart(i)
    \/ \E i \in 1..Len(tasks) : ImageOpen(i)
    \/ \E i \in 1..Len(tasks) : ImageSaveBegin(i)
    \/ \E i \in 1..Len(tasks) : ImageSaveEnd(i)
    \/ \E i \in 1..Len(tasks) : ImageBench(i)
    \/ \E i \in 1..Len(tasks) : VideoStart(i)
    \/ \E i \in 1..Len(tasks) : VideoOpen(i)
    \/ \E i \in 1..Len(tasks) : VideoEncodeBegin(i)
    \/ \E i \in 1..Len(tasks) : VideoEncodeEnd(i)
    \/ \E i \in 1..Len(tasks) : VideoCheck(i)
    \/ \E i \in 1..Len(tasks) : VideoRemove(i)
    \/ \E i \in 1..Len(tasks) : VideoRename(i)
    \/ \E i \in 1..Len(tasks) : VideoBench(i)
    \/ Crash
    \/ Rerun

Spec == Init /\ [][Next]_vars

\* One step of a pool worker.
Worker ==
    \/ \E i \in 1..Len(tasks) : ImageStart(i)
    \/ \E i \in 1..Len(tasks) : ImageOpen(i)
    \/ \E i \in 1..Len(tasks) : ImageSaveBegin(i)
    \/ \E i \in 1..Len(tasks) : ImageSaveEnd(i)
    \/ \E i \in 1..Len(tasks) : ImageBench(i)
    \/ \E i \in 1..Len(tasks) : VideoStart(i)
    \/ \E i \in 1..Len(tasks) : VideoOpen(i)
    \/ \E i \in 1..Len(tasks) : VideoEncodeBegin(i)
    \/ \E i \in 1..Len(tasks) : VideoEncodeEnd(i)
    \/ \E i \in 1..Len(tasks) : VideoCheck(i)
    \/ \E i \in 1..Len(tasks) : VideoRemove(i)
    \/ \E i \in 1..Len(tasks) : VideoRename(i)
    \/ \E i \in 1..Len(tasks) : VideoBench(i)

\* One uninterrupted run with --input: main, find_files, process_batch and
\* its workers.
NextBatch ==
    \/ MainInput
    \/ Submit
    \/ \E i \in 1..Len(tasks) : Collect(i)
    \/ Report
    \/ Worker

InitBatch == Init /\ flow = "input"

SpecBatch == InitBatch /\ [][NextBatch]_vars

\* main up to the call of process_batch, in either flow: the path, the
\* isdir test and find_files.
NextWalk ==
    \/ MainInput
    \/ MainSelect
    \/ MainPath

SpecWalk == Init /\ [][NextWalk]_vars

(* ------------------------------ the claims ---------------------------- *)

Tasks == 1..Len(tasks)

\* new_file_path of a task.
TargetOf(i) ==
    IF tasks[i].worker = "image" THEN ImageTarget(tasks[i].file)
    ELSE VideoTarget(tasks[i].file)

\* The task has computed its target path.
Targeting(i) ==
    /\ tasks[i].pc # "queued"
    /\ tasks[i].worker = "video" =>
          /\ Lower(tasks[i].file.ext) \in VideoExts
          /\ ~HasOptimized(tasks[i].file.name)

\* Some step of task i.
WorkerStep(i) ==
    \/ ImageStart(i) \/ ImageOpen(i) \/ ImageSaveBegin(i) \/ ImageSaveEnd(i)
    \/ ImageBench(i)
    \/ VideoStart(i) \/ VideoOpen(i) \/ VideoEncodeBegin(i) \/ VideoEncodeEnd(i)
    \/ VideoCheck(i) \/ VideoRemove(i) \/ VideoRename(i) \/ VideoBench(i)

\* C1 (as stated): when a run that ended normally is followed by a second
\* run over the same path, the second run has no success, and every input
\* that was a success in the first run comes back from its worker as skipped
\* with the reason "Target exists".
C1_Idempotence ==
    (run > 1 /\ prev.ended = "reported" /\ Reported) =>
        /\ SuccessFiles = {}
        /\ \A f \in prev.success :
              \E i \in Tasks : tasks[i].file = f /\ tasks[i].ret = Skipped

\* C2 (as stated): the target paths computed by the tasks of one batch are
\* pairwise distinct.
C2_DistinctTargets ==
    \A i, j \in Tasks :
        (i # j /\ Targeting(i) /\ Targeting(j)) => TargetOf(i) # TargetOf(j)

\* C3 (as stated): in every state, also after a kill or an encoder failure,
\* the target path of a video task does not exist or holds a completely
\* encoded file.
C3_VideoTargetWhole ==
    \A i \in Tasks :
        (tasks[i].worker = "video" /\ Targeting(i)
         /\ VideoTarget(tasks[i].file) \in DOMAIN fs)
        => fs[VideoTarget(tasks[i].file)].st = "complete"

\* C4: a task whose worker raised has returned the error record of its own
\* file; while the batch runs, a task that holds a thread, or that waits
\* with a thread free, can always take its next step, whatever the others
\* did; and when the report is built every submitted task has finished, has
\* been drained, and its outcome (unless it is None) is in results.
C4_FailureIsolation ==
    /\ \A i \in Tasks :
          tasks[i].raised =>
              /\ tasks[i].pc = "done"
              /\ tasks[i].ret = ErrorRet(tasks[i].file, tasks[i].ret.error)
    /\ \A i \in Tasks :
          (phase = "batch" /\ tasks[i].pc # "done"
           /\ (tasks[i].pc = "queued" => Cardinality(Running) < max_workers))
          => ENABLED WorkerStep(i)
    /\ Reported =>
          /\ \A i \in Tasks : tasks[i].pc = "done" /\ i \in collected
          /\ \A i \in Tasks :
                tasks[i].ret # None =>
                    \E k \in 1..Len(results) : results[k] = tasks[i].ret
          /\ Len(results) = Cardinality({i \in Tasks : tasks[i].ret # None})

\* C4's case: a report built from a batch in which one task failed and
\* another succeeded.
C4_Witness ==
    /\ Reported
    /\ \E i, j \in Tasks : tasks[i].raised /\ tasks[j].ret.status = "success"

\* How often process_batch handed file f to worker w.
Handed(f, w) ==
    Cardinality({i \in Tasks : tasks[i].file = f /\ tasks[i].worker = w})

\* C5 (as stated): once the submit loop is over, an input with an image
\* extension (.png .jpg .jpeg .webp, any case) has been handed to the image
\* worker once, one with a video extension (.mp4 .mov .avi) to the video
\* worker once, and any other input to no worker.
C5_Dispatch ==
    (phase # "main" /\ phase # "path_input" /\ nsub = Len(files)) =>
        \A k \in 1..Len(files) :
            LET f == files[k]
                e == Lower(f.ext)
            IN  /\ e \in {".png", ".jpg", ".jpeg", ".webp"} =>
                      Handed(f, "image") = 1 /\ Handed(f, "video") = 0
                /\ e \in {".mp4", ".mov", ".avi"} =>
                      Handed(f, "video") = 1 /\ Handed(f, "image") = 0
                /\ e \notin {".png", ".jpg", ".jpeg", ".webp", ".mp4", ".mov", ".avi"} =>
                      Handed(f, "image") = 0 /\ Handed(f, "video") = 0

\* C6 (as stated): a video task that has returned holds no open clip.
C6_ClipClosed ==
    \A i \in Tasks :
        (tasks[i].worker = "video" /\ tasks[i].pc = "done") => tasks[i].clip # "open"

\* A directory name of the ignore set is on the way to d (d included).
UnderIgnored(d) == \E k \in 1..Len(d) : d[k] \in IGNORE_DIRS

\* The same, looking only below the directory start.
UnderIgnoredBelow(start, d) ==
    \E k \in (Len(start) + 1)..Len(d) : d[k] \in IGNORE_DIRS

\* find_files has run in this run.
Walked == phase \in {"batch", "exit", "killed"} /\ isdir(path)

\* C7 (as stated): find_files descends into no directory whose base name is
\* in the ignore set, and returns no file that lies under a directory with
\* such a name, also when that directory is the start path itself.
C7_Pruning ==
    Walked =>
        /\ \A d \in visited : d # path.dir => d[Len(d)] \notin IGNORE_DIRS
        /\ \A k \in 1..Len(files) : ~UnderIgnored(files[k].dir)

\* C7 (amended): find_files descends into no directory whose base name is
\* in the ignore set, and returns no file that lies under a directory with
\* such a name below the start path; the names of the start path itself
\* are not tested.
C7_PruningBelowStart ==
    Walked =>
        /\ \A d \in visited : d # path.dir => d[Len(d)] \notin IGNORE_DIRS
        /\ \A k \in 1..Len(files) : ~UnderIgnoredBelow(path.dir, files[k].dir)

\* C7's case: a walk from img that found a file while the disk holds a
\* matching file under img/node_modules.
C7_Witness ==
    /\ Walked
    /\ path.dir = <<"img">>
    /\ Len(files) > 0
    /\ \E p \in DOMAIN fs :
          /\ UnderIgnoredBelow(path.dir, p.dir)
          /\ Lower(p.ext) \in extensions

\* C8 (as stated): when the report is built, the source and the target of
\* every success exist and differ.
C8_SuccessFilesExist ==
    Reported =>
        \A i \in Tasks :
            tasks[i].ret.status = "success" =>
                /\ tasks[i].file \in DOMAIN fs
                /\ TargetOf(i) \in DOMAIN fs
                /\ TargetOf(i) # tasks[i].file

\* The user supplied a path in this run.
Supplied == flow = "input" \/ "Target folder/file:" \in out

\* C9 (as stated): in either flow, a run that was given a path that does
\* not exist ends having printed the invalid-path message, with no task
\* submitted and no batch report.
C9_InvalidRoot ==
    (phase = "exit" /\ Supplied /\ ~exists(arg)) =>
        /\ "Invalid path." \in out
        /\ tasks = <<>>
        /\ out \cap ReportLines = {}

\* C10 (as stated): an image task that returned an error, or was cut short
\* by a kill, leaves no unfinished file at its target, and a task that is
\* skipped because its target exists finds a completely written target.
C10_TargetIsRecord ==
    \A i \in Tasks :
        tasks[i].worker = "image" =>
            /\ (tasks[i].raised \/ (phase = "killed" /\ tasks[i].pc # "done"))
               => ~(/\ ImageTarget(tasks[i].file) \in DOMAIN fs
                    /\ fs[ImageTarget(tasks[i].file)] = Partial(tasks[i].file))
            /\ (tasks[i].ret = Skipped /\ ImageTarget(tasks[i].file) \in DOMAIN fs)
               => fs[ImageTarget(tasks[i].file)].st = "complete"

====
